---- MODULE Spec2Model ----
(***************************************************************************)
(* Model of the 2D collision simulator (src/src/main.c and its variant     *)
(* src/unnamed/part_000, which differ in NUM_BALLS and                     *)
(* RESTITUTION_COEFFICIENT only).                                          *)
(*                                                                         *)
(* C `float` values are modelled as exact rationals <<n, d>> in lowest     *)
(* terms with d > 0; float rounding is not modelled.  sqrtf is exact on    *)
(* every argument with a rational root; the draws of the model keep the    *)
(* arguments of sqrtf in that set.                                         *)
(***************************************************************************)
EXTENDS Integers, Sequences, FiniteSets, TLC

VARIABLES
    balls,          \* the body array
    restitution,    \* RESTITUTION_COEFFICIENT of the build
    pc,             \* the statement the program is at
    i, j,           \* loop indices (1-based)
    attempts, positionFound,    \* locals of InitBalls
    deltaTime,      \* local of UpdateFrame
    caller,         \* which call of InitBalls is running: "start" or "reset"
    totalKE,        \* totalKE of main, <<>> before the first frame of a body set
    frames, resets, \* frames completed, resets requested
    old,            \* history: the body array before the last collision step
    prevKE,         \* history: totalKE of the previous frame of this body set
    fresh,          \* history: InitBalls returned and no frame has started since
    moved, walled,  \* history: bodies integrated / wall-resolved in this frame
    exhausted       \* history: bodies whose placement loop ended without a free position

vars == <<balls, restitution, pc, i, j, attempts, positionFound, deltaTime,
          caller, totalKE, frames, resets, old, prevKE, fresh, moved, walled,
          exhausted>>

(***************************************************************************)
(* Program constants.                                                      *)
(***************************************************************************)
WIDTH == 800
HEIGHT == 600
MIN_BALL_RADIUS == 15
MAX_BALL_RADIUS == 35
VELOCITY_SCALE == 200
MaxAttempts == 100

(***************************************************************************)
(* Bounds of the model.                                                    *)
(***************************************************************************)
NUM_BALLS == 2
MaxFrames == 2
MaxResets == 1

(***************************************************************************)
(* float arithmetic, as exact rational arithmetic.                         *)
(***************************************************************************)
Abs(n) == IF n < 0 THEN -n ELSE n

RECURSIVE GCD(_, _)
GCD(a, b) == IF b = 0 THEN a ELSE GCD(b, a % b)

Norm(n, d) ==
    LET g == GCD(Abs(n), Abs(d))
        s == IF d < 0 THEN -1 ELSE 1
    IN  <<(s * n) \div g, (s * d) \div g>>

R(n) == <<n, 1>>
Zero == R(0)
One == R(1)
Half == <<1, 2>>

RNeg(a) == <<-a[1], a[2]>>

RAdd(a, b) ==
    LET g == GCD(a[2], b[2])
    IN  Norm(a[1] * (b[2] \div g) + b[1] * (a[2] \div g), (a[2] \div g) * b[2])

RSub(a, b) == RAdd(a, RNeg(b))

RMul(a, b) ==
    LET g1 == GCD(Abs(a[1]), b[2])
        g2 == GCD(Abs(b[1]), a[2])
    IN  Norm((a[1] \div g1) * (b[1] \div g2), (a[2] \div g2) * (b[2] \div g1))

RDiv(a, b) == RMul(a, Norm(b[2], b[1]))

RLt(a, b) == RSub(a, b)[1] < 0
RLe(a, b) == RSub(a, b)[1] <= 0
RGt(a, b) == RLt(b, a)
RGe(a, b) == RLe(b, a)

RECURSIVE ISqrtIn(_, _, _)
ISqrtIn(n, lo, hi) ==
    IF lo >= hi THEN lo
    ELSE LET mid == (lo + hi + 1) \div 2
         IN  IF mid * mid <= n THEN ISqrtIn(n, mid, hi)
             ELSE ISqrtIn(n, lo, mid - 1)

ISqrt(n) == ISqrtIn(n, 0, IF n < 46340 THEN n ELSE 46340)

\* sqrtf: exact when numerator and denominator are squares.
Sqrtf(a) == Norm(ISqrt(a[1]), ISqrt(a[2]))

(***************************************************************************)
(* struct Ball (color is cosmetic and not modelled).                       *)
(***************************************************************************)
Vector2(x, y) == [x |-> x, y |-> y]

Ball(position, velocity, radius) ==
    [position |-> position, velocity |-> velocity,
     radius |-> radius, mass |-> RDiv(R(radius), R(2))]

\* The body array before InitBalls has written it; no field of it is read.
Unset == [position |-> Vector2(Zero, Zero), velocity |-> Vector2(Zero, Zero),
          radius |-> 0, mass |-> Zero]

(***************************************************************************)
(* CalculateTotalKineticEnergy                                             *)
(***************************************************************************)
KineticEnergy(ball) ==
    LET speedSq == RAdd(RMul(ball.velocity.x, ball.velocity.x),
                        RMul(ball.velocity.y, ball.velocity.y))
    IN  RMul(RMul(Half, ball.mass), speedSq)

RECURSIVE EnergyFrom(_, _)
EnergyFrom(bs, k) ==
    IF k > Len(bs) THEN Zero
    ELSE RAdd(KineticEnergy(bs[k]), EnergyFrom(bs, k + 1))

CalculateTotalKineticEnergy(bs) == EnergyFrom(bs, 1)

(***************************************************************************)
(* CheckWallCollision                                                      *)
(***************************************************************************)
\* One axis of CheckWallCollision: <<position, velocity>> on that axis.
WallAxisNoRestitution(p, v, radius, limit, e) ==
    IF RLe(RSub(p, R(radius)), Zero) THEN <<R(radius), RNeg(v)>>
    ELSE IF RGe(RAdd(p, R(radius)), R(limit)) THEN <<R(limit - radius), RNeg(v)>>
    ELSE <<p, v>>

WallAxis(p, v, radius, limit, e) ==
    IF RLe(RSub(p, R(radius)), Zero)
    THEN <<R(radius), RMul(v, RNeg(e))>>
    ELSE IF RGe(RAdd(p, R(radius)), R(limit))
    THEN <<R(limit - radius), RMul(v, RNeg(e))>>
    ELSE <<p, v>>

CheckWallCollision(ball, e) ==
    LET ax == WallAxis(ball.position.x, ball.velocity.x, ball.radius, WIDTH, e)
        ay == WallAxis(ball.position.y, ball.velocity.y, ball.radius, HEIGHT, e)
    IN  [ball EXCEPT !.position = Vector2(ax[1], ay[1]),
                     !.velocity = Vector2(ax[2], ay[2])]

(***************************************************************************)
(* CheckBallCollision                                                      *)
(***************************************************************************)
DistSq(b1, b2) ==
    LET dx == RSub(b2.position.x, b1.position.x)
        dy == RSub(b2.position.y, b1.position.y)
    IN  RAdd(RMul(dx, dx), RMul(dy, dy))

MinDist(b1, b2) == R(b1.radius + b2.radius)

\* The collision test of line 173.
Colliding(b1, b2) ==
    /\ RLt(DistSq(b1, b2), RMul(MinDist(b1, b2), MinDist(b1, b2)))
    /\ RGt(DistSq(b1, b2), Zero)

SeparateSecondOnly(b1, b2, nx, ny, overlap) ==
    << b1,
       [b2 EXCEPT !.position = Vector2(RAdd(b2.position.x, RMul(overlap, nx)),
                                       RAdd(b2.position.y, RMul(overlap, ny)))] >>

\* Lines 181-185: each body moves overlap * normal, in opposite directions.
Separate(b1, b2, nx, ny, overlap) ==
    << [b1 EXCEPT !.position = Vector2(RSub(b1.position.x, RMul(overlap, nx)),
                                       RSub(b1.position.y, RMul(overlap, ny)))],
       [b2 EXCEPT !.position = Vector2(RAdd(b2.position.x, RMul(overlap, nx)),
                                       RAdd(b2.position.y, RMul(overlap, ny)))] >>

ImpulseOvershoot(velocityAlongNormal, m1, m2, e) ==
    RDiv(RMul(RNeg(RAdd(R(2), e)), velocityAlongNormal),
         RAdd(RDiv(One, m1), RDiv(One, m2)))

ImpulseNoRestitution(velocityAlongNormal, m1, m2, e) ==
    RDiv(RMul(RNeg(One), velocityAlongNormal),
         RAdd(RDiv(One, m1), RDiv(One, m2)))

\* Line 195.
Impulse(velocityAlongNormal, m1, m2, e) ==
    RDiv(RMul(RNeg(RAdd(One, e)), velocityAlongNormal),
         RAdd(RDiv(One, m1), RDiv(One, m2)))

ApplyImpulseSameMass(b1, b2, impulse, nx, ny) ==
    << [b1 EXCEPT !.velocity =
            Vector2(RSub(b1.velocity.x, RDiv(RMul(impulse, nx), b1.mass)),
                    RSub(b1.velocity.y, RDiv(RMul(impulse, ny), b1.mass)))],
       [b2 EXCEPT !.velocity =
            Vector2(RAdd(b2.velocity.x, RDiv(RMul(impulse, nx), b1.mass)),
                    RAdd(b2.velocity.y, RDiv(RMul(impulse, ny), b1.mass)))] >>

\* Lines 198-201.
ApplyImpulse(b1, b2, impulse, nx, ny) ==
    << [b1 EXCEPT !.velocity =
            Vector2(RSub(b1.velocity.x, RDiv(RMul(impulse, nx), b1.mass)),
                    RSub(b1.velocity.y, RDiv(RMul(impulse, ny), b1.mass)))],
       [b2 EXCEPT !.velocity =
            Vector2(RAdd(b2.velocity.x, RDiv(RMul(impulse, nx), b2.mass)),
                    RAdd(b2.velocity.y, RDiv(RMul(impulse, ny), b2.mass)))] >>

\* velocityAlongNormal of lines 188-189.
VelocityAlongNormal(b1, b2, nx, ny) ==
    RAdd(RMul(RSub(b2.velocity.x, b1.velocity.x), nx),
         RMul(RSub(b2.velocity.y, b1.velocity.y), ny))

\* The pair <<b1, b2>> after CheckBallCollision(&b1, &b2).
CheckBallCollision(b1, b2, e) ==
    IF ~Colliding(b1, b2) THEN <<b1, b2>>
    ELSE LET dx == RSub(b2.position.x, b1.position.x)
             dy == RSub(b2.position.y, b1.position.y)
             distance == Sqrtf(DistSq(b1, b2))
             nx == RDiv(dx, distance)
             ny == RDiv(dy, distance)
             overlap == RMul(Half, RSub(MinDist(b1, b2), distance))
             separated == Separate(b1, b2, nx, ny, overlap)
             velocityAlongNormal == VelocityAlongNormal(b1, b2, nx, ny)
         IN  IF RGt(velocityAlongNormal, Zero) THEN separated
             ELSE ApplyImpulse(separated[1], separated[2],
                               Impulse(velocityAlongNormal, b1.mass, b2.mass, e),
                               nx, ny)

(***************************************************************************)
(* The program: main, InitBalls and UpdateFrame, statement by statement.   *)
(*                                                                         *)
(* GetRandomValue and GetFrameTime draw from the sets below.  All bodies   *)
(* are drawn on one horizontal line with no vertical velocity, so that     *)
(* every distance passed to sqrtf is rational.                             *)
(***************************************************************************)
RadiusDraws == {MIN_BALL_RADIUS}
XDraws(radius) == {x \in {15, 45} : radius <= x /\ x <= WIDTH - radius}
YDraws(radius) == {y \in {300} : radius <= y /\ y <= HEIGHT - radius}
VelocityDraws == {v \in {-20, 20} : -VELOCITY_SCALE <= v /\ v <= VELOCITY_SCALE}
VelocityYDraws == {0}
DeltaTimes == {Zero, One}

\* The builds the frame loop is explored for: restitution 1.0 (main.c) and a
\* fully inelastic one.  0.85 (part_000) is explored call by call in SpecPair
\* and SpecWall: its denominators outgrow 32-bit integers within two frames.
FrameRestitutions == {One, Zero}

\* The overlap test of InitBalls, lines 141-145.
InitOverlap(bi, bj) ==
    RLt(DistSq(bj, bi), RMul(MinDist(bi, bj), MinDist(bi, bj)))

PositionFreeSkipsLast(bs, k) ==
    \A m \in 1..(k - 2) : ~InitOverlap(bs[k], bs[m])

\* positionFound after the loop of lines 139-149 for body k.
PositionFree(bs, k) ==
    \A m \in 1..(k - 1) : ~InitOverlap(bs[k], bs[m])

PlacementContinuesOnceMore(found, att) == ~found /\ att <= MaxAttempts

\* The condition of the while loop, line 133.
PlacementContinues(found, att) == ~found /\ att < MaxAttempts

Init ==
    /\ balls = [k \in 1..NUM_BALLS |-> Unset]
    /\ old = balls
    /\ restitution \in FrameRestitutions
    /\ pc = "InitBalls_radius"
    /\ i = 1 /\ j = 0
    /\ attempts = 0 /\ positionFound = FALSE
    /\ deltaTime = Zero
    /\ caller = "start"
    /\ totalKE = <<>> /\ prevKE = <<>>
    /\ frames = 0 /\ resets = 0
    /\ fresh = FALSE
    /\ moved = {} /\ walled = {} /\ exhausted = {}

\* InitBalls, lines 128-132: radius, mass, and the locals of the placement loop.
InitRadius ==
    /\ pc = "InitBalls_radius"
    /\ \E r \in RadiusDraws :
          balls' = [balls EXCEPT ![i].radius = r, ![i].mass = RDiv(R(r), R(2))]
    /\ old' = balls'
    /\ positionFound' = FALSE
    /\ attempts' = 0
    /\ exhausted' = exhausted \ {i}
    /\ pc' = "InitBalls_place"
    /\ UNCHANGED <<restitution, i, j, deltaTime, caller, totalKE, frames, resets,
                   prevKE, fresh, moved, walled>>

\* InitBalls, lines 133-151: one iteration of the placement loop.
InitAttempt ==
    /\ pc = "InitBalls_place"
    /\ PlacementContinues(positionFound, attempts)
    /\ \E x \in XDraws(balls[i].radius), y \in YDraws(balls[i].radius) :
          /\ balls' = [balls EXCEPT ![i].position = Vector2(R(x), R(y))]
          /\ positionFound' = PositionFree(balls', i)
    /\ old' = balls'
    /\ attempts' = attempts + 1
    /\ UNCHANGED <<restitution, pc, i, j, deltaTime, caller, totalKE, frames,
                   resets, prevKE, fresh, moved, walled, exhausted>>

\* InitBalls, lines 153-159: the loop has ended; velocity, then the next body
\* or the return to main.  The locals of the loop body end with it.
InitVelocity ==
    /\ pc = "InitBalls_place"
    /\ ~PlacementContinues(positionFound, attempts)
    /\ \E vx \in VelocityDraws, vy \in VelocityYDraws :
          balls' = [balls EXCEPT ![i].velocity = Vector2(R(vx), R(vy))]
    /\ old' = balls'
    /\ exhausted' = IF positionFound THEN exhausted ELSE exhausted \cup {i}
    /\ attempts' = 0 /\ positionFound' = FALSE
    /\ IF i < NUM_BALLS
       THEN /\ i' = i + 1
            /\ pc' = "InitBalls_radius"
            /\ fresh' = fresh
       ELSE /\ i' = 0
            /\ pc' = IF caller = "start" THEN "main" ELSE "update"
            /\ fresh' = TRUE
    /\ UNCHANGED <<restitution, j, deltaTime, caller, totalKE, frames, resets,
                   prevKE, moved, walled>>

\* main, line 49: KEY_R pressed, InitBalls runs over the array as it is.
PressR ==
    /\ pc = "main"
    /\ resets < MaxResets
    /\ resets' = resets + 1
    /\ caller' = "reset"
    /\ i' = 1
    /\ pc' = "InitBalls_radius"
    /\ totalKE' = <<>> /\ prevKE' = <<>>
    /\ exhausted' = {}
    /\ fresh' = FALSE
    /\ old' = balls
    /\ UNCHANGED <<balls, restitution, j, attempts, positionFound, deltaTime,
                   frames, moved, walled>>

\* UpdateFrame, line 81.
BeginFrame ==
    /\ pc \in {"main", "update"}
    /\ frames < MaxFrames
    /\ deltaTime' \in DeltaTimes
    /\ i' = 1
    /\ pc' = "UpdateFrame_move"
    /\ moved' = {} /\ walled' = {}
    /\ fresh' = FALSE
    /\ old' = balls
    /\ UNCHANGED <<balls, restitution, j, attempts, positionFound, caller,
                   totalKE, frames, resets, prevKE, exhausted>>

\* Lines 84-85 for one body.
Integrate(ball, dt) ==
    [ball EXCEPT !.position =
        Vector2(RAdd(ball.position.x, RMul(ball.velocity.x, dt)),
                RAdd(ball.position.y, RMul(ball.velocity.y, dt)))]

\* UpdateFrame, lines 83-86: one iteration of the first loop.
MoveStep ==
    /\ pc = "UpdateFrame_move"
    /\ balls' = [balls EXCEPT ![i] = Integrate(balls[i], deltaTime)]
    /\ old' = balls'
    /\ moved' = moved \cup {i}
    /\ IF i < NUM_BALLS
       THEN i' = i + 1 /\ pc' = pc
       ELSE i' = 1 /\ pc' = "UpdateFrame_wall"
    /\ UNCHANGED <<restitution, j, attempts, positionFound, deltaTime, caller,
                   totalKE, frames, resets, prevKE, fresh, walled, exhausted>>

WallStepWholeArray ==
    /\ pc = "UpdateFrame_wall"
    /\ balls' = IF i = 1
                THEN [k \in 1..NUM_BALLS |-> CheckWallCollision(balls[k], restitution)]
                ELSE balls
    /\ old' = balls
    /\ walled' = 1..NUM_BALLS
    /\ j' = i + 1
    /\ IF i < NUM_BALLS
       THEN i' = i /\ pc' = "UpdateFrame_pair"
       ELSE i' = i + 1 /\ pc' = "energy"
    /\ UNCHANGED <<restitution, attempts, positionFound, deltaTime, caller,
                   totalKE, frames, resets, prevKE, fresh, moved, exhausted>>

\* UpdateFrame, lines 88-90: CheckWallCollision of body i, then the inner
\* loop over j = i + 1 starts, or the outer loop and UpdateFrame end.
WallStep ==
    /\ pc = "UpdateFrame_wall"
    /\ balls' = [balls EXCEPT ![i] = CheckWallCollision(balls[i], restitution)]
    /\ old' = balls
    /\ walled' = walled \cup {i}
    /\ j' = i + 1
    /\ IF i < NUM_BALLS
       THEN i' = i /\ pc' = "UpdateFrame_pair"
       ELSE i' = i + 1 /\ pc' = "energy"
    /\ UNCHANGED <<restitution, attempts, positionFound, deltaTime, caller,
                   totalKE, frames, resets, prevKE, fresh, moved, exhausted>>

\* UpdateFrame, lines 90-92: CheckBallCollision of the pair (i, j).
PairStep ==
    /\ pc = "UpdateFrame_pair"
    /\ LET r == CheckBallCollision(balls[i], balls[j], restitution)
       IN  balls' = [balls EXCEPT ![i] = r[1], ![j] = r[2]]
    /\ old' = balls
    /\ IF j < NUM_BALLS
       THEN j' = j + 1 /\ i' = i /\ pc' = pc
       ELSE j' = j + 1 /\ i' = i + 1 /\ pc' = "UpdateFrame_wall"
    /\ UNCHANGED <<restitution, attempts, positionFound, deltaTime, caller,
                   totalKE, frames, resets, prevKE, fresh, moved, walled, exhausted>>

\* main, lines 54-56: UpdateFrame has returned and its locals are gone; the
\* energy of the frame is computed and drawn (DrawFrame changes no state).
EnergyStep ==
    /\ pc = "energy"
    /\ totalKE' = CalculateTotalKineticEnergy(balls)
    /\ prevKE' = totalKE
    /\ frames' = frames + 1
    /\ pc' = "main"
    /\ old' = balls
    /\ i' = 0 /\ j' = 0 /\ deltaTime' = Zero
    /\ UNCHANGED <<balls, restitution, attempts, positionFound, caller, resets,
                   fresh, moved, walled, exhausted>>

Next ==
    \/ InitRadius
    \/ InitAttempt
    \/ InitVelocity
    \/ PressR
    \/ BeginFrame
    \/ MoveStep
    \/ WallStep
    \/ PairStep
    \/ EnergyStep

Spec == Init /\ [][Next]_vars

(***************************************************************************)
(* InitBalls as a procedure of the array it is given and of its random     *)
(* draws: called on the array as allocated, or on one that holds bodies.   *)
(***************************************************************************)
InitBallsArrays ==
    { [k \in 1..NUM_BALLS |-> Unset],
      [k \in 1..NUM_BALLS |->
          Ball(Vector2(R(15), R(300)), Vector2(R(20), Zero), MIN_BALL_RADIUS)],
      [k \in 1..NUM_BALLS |->
          Ball(Vector2(R(15 + 30 * k), R(300)), Vector2(R(-20), Zero), MAX_BALL_RADIUS)] }

InitInitBalls ==
    /\ balls \in InitBallsArrays
    /\ old = balls
    /\ restitution \in FrameRestitutions
    /\ pc = "InitBalls_radius"
    /\ i = 1 /\ j = 0
    /\ attempts = 0 /\ positionFound = FALSE
    /\ deltaTime = Zero
    /\ caller \in {"start", "reset"}
    /\ totalKE = <<>> /\ prevKE = <<>>
    /\ frames = 0 /\ resets = 0
    /\ fresh = FALSE
    /\ moved = {} /\ walled = {} /\ exhausted = {}

NextInitBalls ==
    \/ InitRadius
    \/ InitAttempt
    \/ InitVelocity

SpecInitBalls == InitInitBalls /\ [][NextInitBalls]_vars

\* A step of InitBalls, as it shows on pc and attempts: InitRadius and
\* InitVelocity change pc, InitAttempt increments attempts.
InitBallsStep ==
    /\ pc \in {"InitBalls_radius", "InitBalls_place"}
    /\ pc' \in {"InitBalls_radius", "InitBalls_place", "main", "update"}
    /\ attempts' \in {0, attempts + 1}
    /\ (pc' # pc \/ attempts' # attempts)

\* InitBalls is sequential code that waits for nothing: while one of its
\* statements is pending, it runs.
FairInitBalls == SpecInitBalls /\ WF_<<pc, attempts>>(InitBallsStep)

(***************************************************************************)
(* Restitution coefficients: 1.0 (main.c), 0.85 (part_000), and the two    *)
(* other values the claims quantify over.                                  *)
(***************************************************************************)
Restitutions == {One, <<17, 20>>, Half, Zero}

\* The values of the variables an operation does not use.
Idle ==
    /\ i = 0 /\ j = 0 /\ attempts = 0 /\ positionFound = FALSE
    /\ deltaTime = Zero /\ caller = "none" /\ frames = 0 /\ resets = 0
    /\ fresh = FALSE /\ totalKE = <<>> /\ prevKE = <<>>
    /\ moved = {} /\ walled = {} /\ exhausted = {}

(***************************************************************************)
(* CheckBallCollision as a function of two bodies: every pair of bodies    *)
(* drawn from the sets below, then one call.                               *)
(***************************************************************************)
PairRadii == {MIN_BALL_RADIUS, 20, MAX_BALL_RADIUS}

\* Displacements b2 - b1 whose length is rational.
PairOffsets == {<<39, 0>>, <<-39, 0>>, <<0, 39>>, <<24, 32>>, <<21, 28>>,
                <<-18, -24>>, <<3, -4>>, <<0, 0>>, <<100, 0>>}

PairVelocities == {<<50, 0>>, <<-50, 0>>, <<0, 0>>, <<30, 40>>, <<-30, -40>>,
                   <<0, -50>>, <<20, -20>>}

PairInputs ==
    { << Ball(Vector2(R(400), R(300)), Vector2(R(v1[1]), R(v1[2])), r1),
         Ball(Vector2(R(400 + d[1]), R(300 + d[2])), Vector2(R(v2[1]), R(v2[2])), r2) >> :
        <<r1, r2, d, v1, v2>> \in
            PairRadii \X PairRadii \X PairOffsets \X PairVelocities \X PairVelocities }

InitPair ==
    /\ balls \in PairInputs
    /\ old = balls
    /\ restitution \in Restitutions
    /\ pc = "callPair"
    /\ Idle

CallCheckBallCollision ==
    /\ pc = "callPair"
    /\ old' = balls
    /\ balls' = CheckBallCollision(balls[1], balls[2], restitution)
    /\ pc' = "donePair"
    /\ UNCHANGED <<restitution, i, j, attempts, positionFound, deltaTime, caller,
                   frames, resets, fresh, totalKE, prevKE, moved, walled, exhausted>>

NextPair == CallCheckBallCollision

SpecPair == InitPair /\ [][NextPair]_vars

(***************************************************************************)
(* CheckWallCollision as a function of one body.                           *)
(***************************************************************************)
WallRadii == {MIN_BALL_RADIUS, MAX_BALL_RADIUS}
WallXs == {5, 15, 16, 400, 784, 785, 790}
WallYs == {-3, 15, 300, 585, 598}
WallVelocities == {-100, 0, 100}

WallInputs ==
    { << Ball(Vector2(R(x), R(y)), Vector2(R(vx), R(vy)), r) >> :
        <<r, x, y, vx, vy>> \in
            WallRadii \X WallXs \X WallYs \X WallVelocities \X WallVelocities }

InitWall ==
    /\ balls \in WallInputs
    /\ old = balls
    /\ restitution \in Restitutions
    /\ pc = "callWall"
    /\ Idle

CallCheckWallCollision ==
    /\ pc = "callWall"
    /\ old' = balls
    /\ balls' = <<CheckWallCollision(balls[1], restitution)>>
    /\ pc' = "doneWall"
    /\ UNCHANGED <<restitution, i, j, attempts, positionFound, deltaTime, caller,
                   frames, resets, fresh, totalKE, prevKE, moved, walled, exhausted>>

NextWall == CallCheckWallCollision

SpecWall == InitWall /\ [][NextWall]_vars

(***************************************************************************)
(* Quantities the properties of a pair are stated in.                      *)
(***************************************************************************)
MomentumX(bs) == RAdd(RMul(bs[1].mass, bs[1].velocity.x), RMul(bs[2].mass, bs[2].velocity.x))
MomentumY(bs) == RAdd(RMul(bs[1].mass, bs[1].velocity.y), RMul(bs[2].mass, bs[2].velocity.y))

\* (v2 - v1) . (p2 - p1): the sign of the relative velocity along the normal.
Closing(bs) ==
    RAdd(RMul(RSub(bs[2].velocity.x, bs[1].velocity.x), RSub(bs[2].position.x, bs[1].position.x)),
         RMul(RSub(bs[2].velocity.y, bs[1].velocity.y), RSub(bs[2].position.y, bs[1].position.y)))

\* C3: one CheckBallCollision leaves mass1*v1 + mass2*v2 unchanged in x and
\* in y, whether the pair is skipped, only separated, or receives an impulse.
C3_MomentumConserved ==
    pc = "donePair" =>
        /\ MomentumX(balls) = MomentumX(old)
        /\ MomentumY(balls) = MomentumY(old)

\* C3 witness: a pair of unequal masses that received an impulse on both axes.
C3_Witness ==
    /\ pc = "donePair"
    /\ old[1].mass # old[2].mass
    /\ balls[1].velocity.x # old[1].velocity.x
    /\ balls[1].velocity.y # old[1].velocity.y
    /\ balls[2].velocity # old[2].velocity

\* C4: with restitution < 1, for an overlapping pair with distinct centres
\* whose relative velocity along the normal is <= 0, the kinetic energy
\* after CheckBallCollision is at most the kinetic energy before it.
C4_EnergyNonIncrease ==
    (/\ pc = "donePair"
     /\ RLt(restitution, One)
     /\ Colliding(old[1], old[2])
     /\ RLe(Closing(old), Zero))
        => RLe(CalculateTotalKineticEnergy(balls), CalculateTotalKineticEnergy(old))

\* C4 witness: restitution 0.85, an approaching overlapping pair lost energy.
C4_Witness ==
    /\ pc = "donePair"
    /\ restitution = <<17, 20>>
    /\ Colliding(old[1], old[2])
    /\ RLt(Closing(old), Zero)
    /\ RLt(CalculateTotalKineticEnergy(balls), CalculateTotalKineticEnergy(old))

\* A vector parallel to the line of centres of bs.
OnAxis(v, bs) ==
    RMul(v.x, RSub(bs[2].position.y, bs[1].position.y))
        = RMul(v.y, RSub(bs[2].position.x, bs[1].position.x))

\* C5: with restitution 1, two overlapping bodies of equal radius, distinct
\* centres, both velocities on the line of centres and approaching: the call
\* exchanges the two velocities and leaves the centres exactly the sum of the
\* radii apart, both bodies moved by the same amount in opposite directions
\* along the line of centres.
C5_HeadOnExchange ==
    (/\ pc = "donePair"
     /\ restitution = One
     /\ old[1].radius = old[2].radius
     /\ Colliding(old[1], old[2])
     /\ OnAxis(old[1].velocity, old) /\ OnAxis(old[2].velocity, old)
     /\ RLt(Closing(old), Zero))
        => /\ balls[1].velocity = old[2].velocity
           /\ balls[2].velocity = old[1].velocity
           /\ DistSq(balls[1], balls[2]) = RMul(MinDist(old[1], old[2]), MinDist(old[1], old[2]))
           /\ RAdd(balls[1].position.x, balls[2].position.x)
                = RAdd(old[1].position.x, old[2].position.x)
           /\ RAdd(balls[1].position.y, balls[2].position.y)
                = RAdd(old[1].position.y, old[2].position.y)
           /\ OnAxis(Vector2(RSub(balls[2].position.x, balls[1].position.x),
                             RSub(balls[2].position.y, balls[1].position.y)), old)
           /\ RGt(DistSq(balls[1], balls[2]), DistSq(old[1], old[2]))

\* C5 witness: radius 20, centres 39 apart on the x axis, velocities (+50,0)
\* and (-50,0) become (-50,0) and (+50,0), centres 40 apart.
C5_Witness ==
    /\ pc = "donePair"
    /\ restitution = One
    /\ old[1].radius = 20 /\ old[2].radius = 20
    /\ old[1].position = Vector2(R(400), R(300))
    /\ old[2].position = Vector2(R(439), R(300))
    /\ old[1].velocity = Vector2(R(50), Zero)
    /\ old[2].velocity = Vector2(R(-50), Zero)
    /\ balls[1].velocity = Vector2(R(-50), Zero)
    /\ balls[2].velocity = Vector2(R(50), Zero)
    /\ balls[1].position = Vector2(<<799, 2>>, R(300))
    /\ balls[2].position = Vector2(<<879, 2>>, R(300))

\* C8: CheckWallCollision, per axis: an edge past a wall puts the edge on
\* that wall and multiplies that axis' velocity by -restitution; an axis
\* whose edges are strictly inside is left unchanged; the axes are
\* independent.
AxisBounce(p, v, p2, v2, radius, limit, e) ==
    /\ RLt(RSub(p, R(radius)), Zero) => p2 = R(radius) /\ v2 = RMul(RNeg(e), v)
    /\ RGt(RAdd(p, R(radius)), R(limit)) => p2 = R(limit - radius) /\ v2 = RMul(RNeg(e), v)
    /\ (RGt(RSub(p, R(radius)), Zero) /\ RLt(RAdd(p, R(radius)), R(limit)))
          => p2 = p /\ v2 = v

C8_WallBounce ==
    pc = "doneWall" =>
        /\ AxisBounce(old[1].position.x, old[1].velocity.x,
                      balls[1].position.x, balls[1].velocity.x,
                      old[1].radius, WIDTH, restitution)
        /\ AxisBounce(old[1].position.y, old[1].velocity.y,
                      balls[1].position.y, balls[1].velocity.y,
                      old[1].radius, HEIGHT, restitution)
        /\ balls[1].radius = old[1].radius /\ balls[1].mass = old[1].mass

\* C8 witness: the body at (5, 300), radius 15, velocity (-100, 0), restitution
\* 0.85 ends at x = 15 with velocity.x = +85 and its y axis untouched.
C8_Witness ==
    /\ pc = "doneWall"
    /\ restitution = <<17, 20>>
    /\ old[1] = Ball(Vector2(R(5), R(300)), Vector2(R(-100), Zero), 15)
    /\ balls[1] = Ball(Vector2(R(15), R(300)), Vector2(R(85), Zero), 15)

(***************************************************************************)
(* Properties of the program.                                              *)
(***************************************************************************)
InWindow(ball) ==
    /\ RLe(R(ball.radius), ball.position.x)
    /\ RLe(ball.position.x, R(WIDTH - ball.radius))
    /\ RLe(R(ball.radius), ball.position.y)
    /\ RLe(ball.position.y, R(HEIGHT - ball.radius))

\* C1: at the end of each UpdateFrame every body lies within the window:
\* radius <= position.x <= WIDTH - radius, radius <= position.y <= HEIGHT - radius.
C1_WallContainment ==
    pc = "energy" => \A k \in 1..NUM_BALLS : InWindow(balls[k])

\* C2, as stated: when CheckBallCollision is applied to the pair (i, j), every
\* body is integrated and both i and j have had their wall collision
\* resolved in this frame.
C2_WallsBeforePairs ==
    pc = "UpdateFrame_pair" =>
        /\ moved = 1..NUM_BALLS
        /\ i \in walled /\ j \in walled

\* C2, amended: every body is integrated before any wall or pair step; when
\* CheckBallCollision is applied to the pair (i, j), exactly the bodies 1..i
\* have had their wall collision resolved in this frame, and i < j, so body j
\* has not; CheckWallCollision of body i runs when exactly the bodies below
\* i are resolved.
C2_WallThenOwnPairs ==
    /\ pc = "UpdateFrame_pair" =>
          /\ moved = 1..NUM_BALLS
          /\ walled = 1..i
          /\ i < j /\ j <= NUM_BALLS
    /\ pc = "UpdateFrame_wall" =>
          /\ moved = 1..NUM_BALLS
          /\ walled = 1..(i - 1)

\* C2 witness: a pair about to be resolved whose second body is beyond its
\* wall and not yet wall-resolved.
C2_Witness ==
    /\ pc = "UpdateFrame_pair"
    /\ i \in walled /\ j \notin walled
    /\ ~InWindow(balls[j])

\* C6: when InitBalls returns, at start or as a reset, every body that did
\* not end its placement loop without a free position is clear of every
\* earlier body: squared centre distance >= (sum of radii)^2.
C6_NoOverlapAfterInit ==
    fresh =>
        \A b \in 1..NUM_BALLS : \A a \in 1..(b - 1) :
            b \notin exhausted =>
                RGe(DistSq(balls[a], balls[b]),
                    RMul(MinDist(balls[a], balls[b]), MinDist(balls[a], balls[b])))

\* C6 witness: a reset has returned with every body placed free of overlap.
C6_Witness ==
    /\ fresh /\ caller = "reset" /\ pc = "update"
    /\ exhausted = {}
    /\ balls[1].position # balls[2].position

C9_EnergyMonotone ==
    (totalKE # <<>> /\ prevKE # <<>>) =>
        /\ RLe(totalKE, prevKE)
        /\ restitution = One => totalKE = prevKE

\* C9 witness: a frame with a wall bounce or a pair impulse lost energy.
C9_Witness ==
    /\ totalKE # <<>> /\ prevKE # <<>>
    /\ RLt(totalKE, prevKE)
    /\ RGt(totalKE, Zero)

\* The body whose CheckWallCollision has just run, if any.
JustWalled(k) ==
    \/ pc = "UpdateFrame_pair" /\ k = i /\ j = i + 1
    \/ pc = "energy" /\ k = NUM_BALLS

\* C10: whenever CheckWallCollision clamps a body to a wall on an axis, the
\* body's velocity on that axis afterwards points into the window or is zero.
C10_BounceLeavesWall ==
    \A k \in 1..NUM_BALLS :
        JustWalled(k) =>
            /\ RLe(RSub(old[k].position.x, R(old[k].radius)), Zero)
                  => RGe(balls[k].velocity.x, Zero)
            /\ (/\ RGt(RSub(old[k].position.x, R(old[k].radius)), Zero)
                /\ RGe(RAdd(old[k].position.x, R(old[k].radius)), R(WIDTH)))
                  => RLe(balls[k].velocity.x, Zero)
            /\ RLe(RSub(old[k].position.y, R(old[k].radius)), Zero)
                  => RGe(balls[k].velocity.y, Zero)
            /\ (/\ RGt(RSub(old[k].position.y, R(old[k].radius)), Zero)
                /\ RGe(RAdd(old[k].position.y, R(old[k].radius)), R(HEIGHT)))
                  => RLe(balls[k].velocity.y, Zero)

====
